---- MODULE Spec2Model ----
(***************************************************************************)
(* SocketWave chat client: the Sender (main) and the Receiver              *)
(* (receiveMessages) sharing one TCP socket and one terminal.              *)
(*                                                                         *)
(* Three client variants live in the repository:                           *)
(*   "linux" - src/chat_client_linux.cpp          (colours, login, /quit)  *)
(*   "basic" - src/unnamed/part_000, lines 1-135  (no login, no mutex)     *)
(*   "color" - src/unnamed/part_000, lines 137-304 (as "linux", commented) *)
(* Text is a sequence of one-character strings.                            *)
(***************************************************************************)
EXTENDS Integers, Sequences, FiniteSets, TLC

VARIABLES variant,    \* which client variant runs
          spc,        \* Sender (main) position
          rpc,        \* Receiver (receiveMessages) position
          message,    \* main's std::string message
          nInputs,    \* operator lines read so far
          stdinEof,   \* std::cin has reached end-of-file
          writes,     \* history of send() calls: [data, ok]
          quitSteps,  \* what main did since the operator typed /quit
          closes,     \* history of close() calls, by context
          sockOps,    \* set of <<context, direction>> socket calls issued
          fdOpen,     \* clientSocket is an open descriptor
          srv,        \* the peer: "none", "open", "closed", "reset"
          inflight,   \* bytes the server sent that have not arrived yet
          s2c,        \* bytes in the client's receive queue
          srvLines,   \* history of the lines the server sent
          nread,      \* receiveMessages' bytesReceived
          buffer,     \* receiveMessages' buffer[0..bytesReceived)
          lock,       \* holder of coutMutex
          writing,    \* contexts in the middle of a write to std::cout
          rendered,   \* history of the items the Receiver printed
          notices,    \* notices printed so far
          exitStatus  \* status of the process, -1 while it runs

\* the chat server: Session Registry, Broadcast Router and the
\* per-connection handlers
VARIABLES sess,       \* Session Registry: per connection, the Session
          outbox,     \* per connection, the lines written to that client
          chats,      \* per connection, the chat texts it had broadcast
          leaves,     \* per connection, the leave notices broadcast for it
          before      \* per connection, who had not logged in when it did

clientVars == <<variant, spc, rpc, message, nInputs, stdinEof, writes,
                quitSteps, closes, sockOps, fdOpen, srv, inflight, s2c,
                srvLines, nread, buffer, lock, writing, rendered, notices,
                exitStatus>>
serverVars == <<sess, outbox, chats, leaves, before>>
vars == <<clientVars, serverVars>>

\* ------------------------------------------------------------------ bounds
MaxInputs == 2
MaxSrvLines == 2
SegmentSize == 5
MaxClientLines == 4
MaxFloods == 2

\* ------------------------------------------------------- program constants
BufCap == 1024

Variants == {"linux", "basic", "color"}

QuitCmd == <<"/", "q", "u", "i", "t">>
LoginPrefix == <<"L", "O", "G", "I", "N", " ">>
ServerPrefix == <<"S", "E", "R", "V", "E", "R", ":">>
Newline == "\n"

\* ------------------------------------------------------------ input sets
Usernames == {<<"a">>}
OperatorLines == {<<>>, <<"h", "i">>, QuitCmd}
ServerLines == {ServerPrefix \o <<"j">>, <<"b", ":", "h">>}

\* ---------------------------------------------------------------- helpers
Min(a, b) == IF a < b THEN a ELSE b

\* which features a variant's source has
HasLogin(v) == v # "basic"
UsesLock(v) == v # "basic"
HasPrompt(v) == v # "basic"
SendsQuit(v) == v # "basic"
ChecksSend(v) == v # "basic"
ClosesOnConnectFail(v) == v # "linux"

LoginCmd(username) == LoginPrefix \o username

\* msg.rfind("SERVER:", 0) == 0
StartsWithServer(msg) ==
    /\ Len(msg) >= Len(ServerPrefix)
    /\ SubSeq(msg, 1, Len(ServerPrefix)) = ServerPrefix

Category(v, msg) ==
    IF ~UsesLock(v) THEN "plain"
    ELSE IF StartsWithServer(msg) THEN "system" ELSE "peer"

\* the branch receiveMessages takes on recv()'s result
RecvOutcome(v, n) ==
    IF n > 0 THEN "msg"
    ELSE IF v = "basic" THEN (IF n = 0 THEN "eof" ELSE "err")
    ELSE "disc"

DisconnectNotice(v, n) ==
    IF v = "basic"
    THEN (IF n = 0 THEN "Server disconnected." ELSE "Error receiving data.")
    ELSE "Disconnected from server."

\* the server with no connection accepted yet
Sessions == {1, 2, 3}
NoSession == [st |-> "free", name |-> "none", up |-> FALSE, n |-> 0, k |-> 0]
ServerIdle ==
    /\ sess = [s \in Sessions |-> NoSession]
    /\ outbox = [s \in Sessions |-> <<>>]
    /\ chats = [s \in Sessions |-> <<>>]
    /\ leaves = [s \in Sessions |-> 0]
    /\ before = [s \in Sessions |-> {}]

Init ==
    /\ ServerIdle
    /\ variant \in Variants
    /\ spc = "socket"
    /\ rpc = "unborn"
    /\ message = <<>>
    /\ nInputs = 0
    /\ stdinEof = FALSE
    /\ writes = <<>>
    /\ quitSteps = <<>>
    /\ closes = <<>>
    /\ sockOps = {}
    /\ fdOpen = FALSE
    /\ srv = "none"
    /\ inflight = <<>>
    /\ s2c = <<>>
    /\ srvLines = <<>>
    /\ nread = 0
    /\ buffer = <<>>
    /\ lock = "none"
    /\ writing = {}
    /\ rendered = <<>>
    /\ notices = {}
    /\ exitStatus = -1

\* ----------------------------------------------------------- the socket
\* bytes the client has put on the wire, in order
RECURSIVE Wire(_)
Wire(ws) ==
    IF ws = <<>> THEN <<>>
    ELSE (IF ws[1].ok THEN ws[1].data ELSE <<>>) \o Wire(Tail(ws))

\* send(clientSocket, data, size, 0): can it succeed, can it fail
SendOutcomes(peer) ==
    IF peer = "open" THEN {TRUE}
    ELSE IF peer = "closed" THEN {TRUE, FALSE}
    ELSE {FALSE}

\* the value send() returns
Sent(ok, data) == IF ok THEN Len(data) ELSE -1

\* the steps of main once /quit was read, appended to quitSteps
QuitTyped == message = QuitCmd
NoteStep(steps, isQuit, new) == IF isQuit THEN steps \o new ELSE steps

\* ------------------------------------------------------------ the Sender
\* socket(AF_INET, SOCK_STREAM, 0)
S_Socket ==
    /\ spc = "socket"
    /\ \/ /\ fdOpen' = TRUE
          /\ spc' = "connect"
          /\ UNCHANGED exitStatus
       \/ /\ spc' = "exited"
          /\ exitStatus' = 1
          /\ UNCHANGED fdOpen
    /\ UNCHANGED serverVars
    /\ UNCHANGED stdinEof
    /\ UNCHANGED <<variant, rpc, message, nInputs, writes, quitSteps, closes,
                   sockOps, srv, inflight, s2c, srvLines, nread, buffer,
                   lock, writing, rendered, notices>>

\* connect(...): on failure "basic" and "color" close the socket, "linux"
\* returns with the descriptor still open
S_Connect ==
    /\ spc = "connect"
    /\ \/ /\ srv' = "open"
          /\ spc' = IF HasLogin(variant) THEN "login" ELSE "spawn"
          /\ UNCHANGED <<fdOpen, closes, exitStatus>>
       \/ /\ spc' = "exited"
          /\ exitStatus' = 1
          /\ fdOpen' = ~ClosesOnConnectFail(variant)
          /\ closes' = IF ClosesOnConnectFail(variant)
                       THEN Append(closes, "sender") ELSE closes
          /\ UNCHANGED srv
    /\ UNCHANGED serverVars
    /\ UNCHANGED stdinEof
    /\ UNCHANGED <<variant, rpc, message, nInputs, writes, quitSteps,
                   sockOps, inflight, s2c, srvLines, nread, buffer,
                   lock, writing, rendered, notices>>

\* a main that also reads the server's reply to the login itself
LoginSockOpsWithReply == {<<"sender", "write">>, <<"sender", "read">>}

\* the socket calls of the login flow
LoginSockOps == {<<"sender", "write">>}

\* getline(cin, username); send(clientSocket, "LOGIN " + username)
S_Login ==
    /\ spc = "login"
    /\ \E username \in Usernames, ok \in SendOutcomes(srv) :
          writes' = Append(writes, [data |-> LoginCmd(username), ok |-> ok])
    /\ sockOps' = sockOps \cup LoginSockOps
    /\ spc' = "spawn"
    /\ UNCHANGED serverVars
    /\ UNCHANGED stdinEof
    /\ UNCHANGED <<variant, rpc, message, nInputs, quitSteps, closes,
                   fdOpen, srv, inflight, s2c, srvLines, nread, buffer,
                   lock, writing, rendered, notices, exitStatus>>

\* std::thread receiver(receiveMessages, clientSocket)
S_Spawn ==
    /\ spc = "spawn"
    /\ rpc' = "loop"
    /\ spc' = IF HasPrompt(variant) THEN "prompt" ELSE "getline"
    /\ UNCHANGED serverVars
    /\ UNCHANGED stdinEof
    /\ UNCHANGED <<variant, message, nInputs, writes, quitSteps, closes,
                   sockOps, fdOpen, srv, inflight, s2c, srvLines, nread,
                   buffer, lock, writing, rendered, notices, exitStatus>>

\* main starts a write to std::cout, with no lock taken: the "You: "
\* prompt, or the send-failure notice
S_BeginWrite ==
    /\ spc \in {"prompt", "fail"}
    /\ writing' = writing \cup {"sender"}
    /\ spc' = IF spc = "prompt" THEN "prompt_w" ELSE "fail_w"
    /\ UNCHANGED serverVars
    /\ UNCHANGED stdinEof
    /\ UNCHANGED <<variant, rpc, message, nInputs, writes, quitSteps, closes,
                   sockOps, fdOpen, srv, inflight, s2c, srvLines, nread,
                   buffer, lock, rendered, notices, exitStatus>>

\* main's write to std::cout completes
S_EndWrite ==
    /\ spc \in {"prompt_w", "fail_w"}
    /\ writing' = writing \ {"sender"}
    /\ notices' = IF spc = "fail_w"
                  THEN notices \cup {"Failed to send message."} ELSE notices
    /\ spc' = IF spc = "prompt_w" THEN "getline" ELSE "close"
    /\ UNCHANGED serverVars
    /\ UNCHANGED stdinEof
    /\ UNCHANGED <<variant, rpc, message, nInputs, writes, quitSteps, closes,
                   sockOps, fdOpen, srv, inflight, s2c, srvLines, nread,
                   buffer, lock, rendered, exitStatus>>

\* std::getline(std::cin, message); if (message == "/quit")
S_Getline ==
    /\ spc = "getline"
    /\ nInputs < MaxInputs
    /\ ~stdinEof
    /\ \E l \in OperatorLines :
          /\ message' = l
          /\ spc' = IF l # QuitCmd THEN "send"
                    ELSE IF SendsQuit(variant) THEN "send_quit" ELSE "close"
          /\ quitSteps' = IF l = QuitCmd /\ ~SendsQuit(variant)
                          THEN <<"leave">> ELSE <<>>
    /\ nInputs' = nInputs + 1
    /\ UNCHANGED serverVars
    /\ UNCHANGED stdinEof
    /\ UNCHANGED <<variant, rpc, writes, closes, sockOps, fdOpen, srv,
                   inflight, s2c, srvLines, nread, buffer, lock, writing,
                   rendered, notices, exitStatus>>

\* what std::getline leaves in message when no line is left: it erases the
\* string at the end of the input, and leaves it alone once the stream
\* has failed
GetlineAtEof(failed, str) == IF failed THEN str ELSE <<>>

\* std::getline(std::cin, message) at the end of the operator's input: it
\* returns at once and its result is not looked at
S_GetlineEof ==
    /\ spc = "getline"
    /\ nInputs < MaxInputs
    /\ message' = GetlineAtEof(stdinEof, message)
    /\ stdinEof' = TRUE
    /\ spc' = IF message' # QuitCmd THEN "send"
              ELSE IF SendsQuit(variant) THEN "send_quit" ELSE "close"
    /\ quitSteps' = <<>>
    /\ nInputs' = nInputs + 1
    /\ UNCHANGED serverVars
    /\ UNCHANGED <<variant, rpc, writes, closes, sockOps, fdOpen, srv,
                   inflight, s2c, srvLines, nread, buffer, lock, writing,
                   rendered, notices, exitStatus>>

\* send(clientSocket, message.c_str(), message.size(), 0); break;
S_SendQuit ==
    /\ spc = "send_quit"
    /\ \E ok \in SendOutcomes(srv) :
          writes' = Append(writes, [data |-> message, ok |-> ok])
    /\ sockOps' = sockOps \cup {<<"sender", "write">>}
    /\ quitSteps' = <<"write", "leave">>
    /\ spc' = "close"
    /\ UNCHANGED serverVars
    /\ UNCHANGED stdinEof
    /\ UNCHANGED <<variant, rpc, message, nInputs, closes, fdOpen, srv,
                   inflight, s2c, srvLines, nread, buffer, lock, writing,
                   rendered, notices, exitStatus>>

\* sent = send(clientSocket, message.c_str(), message.size(), 0);
\* if (sent <= 0) { ...; break; }   ("basic" ignores the result)
S_Send ==
    /\ spc = "send"
    /\ \E ok \in SendOutcomes(srv) :
          /\ writes' = Append(writes, [data |-> message, ok |-> ok])
          /\ spc' = IF ChecksSend(variant) /\ Sent(ok, message) <= 0
                    THEN "fail" ELSE "getline"
    /\ sockOps' = sockOps \cup {<<"sender", "write">>}
    /\ UNCHANGED serverVars
    /\ UNCHANGED stdinEof
    /\ UNCHANGED <<variant, rpc, message, nInputs, quitSteps, closes, fdOpen,
                   srv, inflight, s2c, srvLines, nread, buffer, lock, writing,
                   rendered, notices, exitStatus>>

\* close(clientSocket)
S_Close ==
    /\ spc = "close"
    /\ fdOpen' = FALSE
    /\ closes' = Append(closes, "sender")
    /\ quitSteps' = NoteStep(quitSteps, QuitTyped, <<"close">>)
    /\ spc' = "join"
    /\ UNCHANGED serverVars
    /\ UNCHANGED stdinEof
    /\ UNCHANGED <<variant, rpc, message, nInputs, writes, sockOps, srv,
                   inflight, s2c, srvLines, nread, buffer, lock, writing,
                   rendered, notices, exitStatus>>

\* receiver.join(): returns once receiveMessages has returned
S_Join ==
    /\ spc = "join"
    /\ rpc = "done"
    /\ quitSteps' = NoteStep(quitSteps, QuitTyped, <<"join">>)
    /\ spc' = "return"
    /\ UNCHANGED serverVars
    /\ UNCHANGED stdinEof
    /\ UNCHANGED <<variant, rpc, message, nInputs, writes, closes, sockOps,
                   fdOpen, srv, inflight, s2c, srvLines, nread, buffer, lock,
                   writing, rendered, notices, exitStatus>>

\* return 0
S_Return ==
    /\ spc = "return"
    /\ quitSteps' = NoteStep(quitSteps, QuitTyped, <<"exit">>)
    /\ spc' = "exited"
    /\ exitStatus' = 0
    /\ UNCHANGED serverVars
    /\ UNCHANGED stdinEof
    /\ UNCHANGED <<variant, rpc, message, nInputs, writes, closes, sockOps,
                   fdOpen, srv, inflight, s2c, srvLines, nread, buffer, lock,
                   writing, rendered, notices>>

SenderInternal ==
    \/ S_Socket \/ S_Connect \/ S_Login \/ S_Spawn \/ S_BeginWrite
    \/ S_EndWrite \/ S_SendQuit \/ S_Send \/ S_Close \/ S_Join \/ S_Return

\* ---------------------------------------------------------- the Receiver
\* the socket calls of one iteration of receiveMessages
ReceiverSockOps == {<<"receiver", "read">>}

\* where receiveMessages goes once recv() has returned
AfterRecv(v) == IF UsesLock(v) THEN "lock" ELSE "write"

\* a recv() that is offered the whole buffer, sizeof(buffer)
RecvLenWhole(queue) == Min(Len(queue), BufCap)

\* bytes one recv(socketFd, buffer, sizeof(buffer) - 1, 0) takes
RecvLen(queue) == Min(Len(queue), BufCap - 1)

\* receiveMessages calls recv(): it blocks in the call, or fails at once
\* on a descriptor main has closed already
R_CallRecv ==
    /\ rpc = "loop"
    /\ sockOps' = sockOps \cup ReceiverSockOps
    /\ IF fdOpen
       THEN /\ rpc' = "in_recv"
            /\ UNCHANGED nread
       ELSE /\ rpc' = AfterRecv(variant)
            /\ nread' = -1
    /\ UNCHANGED serverVars
    /\ UNCHANGED stdinEof
    /\ UNCHANGED <<variant, spc, message, nInputs, writes, quitSteps, closes,
                   fdOpen, srv, inflight, s2c, srvLines, buffer, lock,
                   writing, rendered, notices, exitStatus>>

\* recv() returns: queued bytes, 0 at the peer's orderly close, -1 on a
\* reset; otherwise the call stays blocked
R_RecvReturn ==
    /\ rpc = "in_recv"
    /\ \/ /\ s2c # <<>>
          /\ nread' = RecvLen(s2c)
          /\ buffer' = SubSeq(s2c, 1, RecvLen(s2c))
          /\ s2c' = SubSeq(s2c, RecvLen(s2c) + 1, Len(s2c))
       \/ /\ s2c = <<>> /\ inflight = <<>> /\ srv = "closed"
          /\ nread' = 0
          /\ UNCHANGED <<buffer, s2c>>
       \/ /\ s2c = <<>> /\ srv = "reset"
          /\ nread' = -1
          /\ UNCHANGED <<buffer, s2c>>
    /\ rpc' = AfterRecv(variant)
    /\ UNCHANGED serverVars
    /\ UNCHANGED stdinEof
    /\ UNCHANGED <<variant, spc, message, nInputs, writes, quitSteps, closes,
                   sockOps, fdOpen, srv, inflight, srvLines, lock, writing,
                   rendered, notices, exitStatus>>

\* std::lock_guard<std::mutex> lock(coutMutex)
R_Lock ==
    /\ rpc = "lock"
    /\ lock = "none"
    /\ lock' = "receiver"
    /\ rpc' = "write"
    /\ UNCHANGED serverVars
    /\ UNCHANGED stdinEof
    /\ UNCHANGED <<variant, spc, message, nInputs, writes, quitSteps, closes,
                   sockOps, fdOpen, srv, inflight, s2c, srvLines, nread,
                   buffer, writing, rendered, notices, exitStatus>>

\* receiveMessages starts its write to std::cout
R_BeginWrite ==
    /\ rpc = "write"
    /\ writing' = writing \cup {"receiver"}
    /\ rpc' = "writing"
    /\ UNCHANGED serverVars
    /\ UNCHANGED stdinEof
    /\ UNCHANGED <<variant, spc, message, nInputs, writes, quitSteps, closes,
                   sockOps, fdOpen, srv, inflight, s2c, srvLines, nread,
                   buffer, lock, rendered, notices, exitStatus>>

\* a lock_guard declared outside the loop: still held at the next recv()
LockKeptAcrossLoop(held) == held

\* the lock_guard of the render block goes out of scope
LockAfterRender(held) == "none"

\* a receiveMessages that breaks without a word
SilentBreak(v, n) == {}

\* what receiveMessages prints when recv() reports the connection gone
DisconnectOutput(v, n) == {DisconnectNotice(v, n)}

\* a receiveMessages that closes socketFd before it returns
ReceiverClosesSocket == <<"receiver">>

\* the close() calls receiveMessages makes when its loop ends: none
ReceiverCleanup == <<>>

\* the write completes: the message and the prompt, then the next
\* iteration; or the disconnect notice, then break
R_EndWrite ==
    /\ rpc = "writing"
    /\ writing' = writing \ {"receiver"}
    /\ IF RecvOutcome(variant, nread) = "msg"
       THEN /\ rendered' = Append(rendered,
                               [cat |-> Category(variant, buffer),
                                text |-> buffer])
            /\ lock' = LockAfterRender(lock)
            /\ rpc' = "loop"
            /\ UNCHANGED <<notices, closes>>
       ELSE /\ notices' = notices \cup DisconnectOutput(variant, nread)
            /\ lock' = "none"
            /\ closes' = closes \o ReceiverCleanup
            /\ rpc' = "done"
            /\ UNCHANGED rendered
    /\ UNCHANGED serverVars
    /\ UNCHANGED stdinEof
    /\ UNCHANGED <<variant, spc, message, nInputs, writes, quitSteps,
                   sockOps, fdOpen, srv, inflight, s2c, srvLines, nread,
                   buffer, exitStatus>>

ReceiverNext ==
    R_CallRecv \/ R_RecvReturn \/ R_Lock \/ R_BeginWrite \/ R_EndWrite

\* ------------------------------------------------- the peer and the wire
\* the server has read a /quit the client wrote
ServerSawQuit ==
    \E i \in 1..Len(writes) : writes[i].ok /\ writes[i].data = QuitCmd

\* the client's end of the connection is released: the descriptor is
\* closed and no recv() that started before the close is still in progress
ServerSeesClose == srv # "none" /\ ~fdOpen /\ rpc # "in_recv"

\* the server sends one line, terminated by the record separator
ServerSend ==
    /\ srv = "open"
    /\ Len(srvLines) < MaxSrvLines
    /\ \E l \in ServerLines :
          /\ inflight' = inflight \o l \o <<Newline>>
          /\ srvLines' = Append(srvLines, l)
    /\ UNCHANGED serverVars
    /\ UNCHANGED stdinEof
    /\ UNCHANGED <<variant, spc, rpc, message, nInputs, writes, quitSteps,
                   closes, sockOps, fdOpen, srv, s2c, nread, buffer, lock,
                   writing, rendered, notices, exitStatus>>

\* one segment of the server's bytes reaches the client's receive queue
Arrive ==
    /\ inflight # <<>>
    /\ s2c' = s2c \o SubSeq(inflight, 1, Min(SegmentSize, Len(inflight)))
    /\ inflight' = SubSeq(inflight, Min(SegmentSize, Len(inflight)) + 1,
                          Len(inflight))
    /\ UNCHANGED serverVars
    /\ UNCHANGED stdinEof
    /\ UNCHANGED <<variant, spc, rpc, message, nInputs, writes, quitSteps,
                   closes, sockOps, fdOpen, srv, srvLines, nread, buffer,
                   lock, writing, rendered, notices, exitStatus>>

\* the server closes its side once it has read /quit or seen the close
ServerReact ==
    /\ srv = "open"
    /\ ServerSawQuit \/ ServerSeesClose
    /\ srv' = "closed"
    /\ UNCHANGED serverVars
    /\ UNCHANGED stdinEof
    /\ UNCHANGED <<variant, spc, rpc, message, nInputs, writes, quitSteps,
                   closes, sockOps, fdOpen, inflight, s2c, srvLines, nread,
                   buffer, lock, writing, rendered, notices, exitStatus>>

\* the server side drops: an orderly close, or a reset that discards
\* what was queued
ServerDrop ==
    /\ srv = "open"
    /\ \/ /\ srv' = "closed"
          /\ UNCHANGED <<inflight, s2c>>
       \/ /\ srv' = "reset"
          /\ inflight' = <<>>
          /\ s2c' = <<>>
    /\ UNCHANGED serverVars
    /\ UNCHANGED stdinEof
    /\ UNCHANGED <<variant, spc, rpc, message, nInputs, writes, quitSteps,
                   closes, sockOps, fdOpen, srvLines, nread, buffer, lock,
                   writing, rendered, notices, exitStatus>>

\* n bytes that hold no record separator
FloodData(n) == [i \in 1..n |-> "x"]

\* how much a peer sends in one burst: less than the buffer holds, what
\* recv() may take, one byte more, and more than two buffers
FloodSizes == {1, BufCap - 1, BufCap, 2 * BufCap + 1}

\* a peer's burst without record separator has reached the client's
\* receive queue in full before the Receiver reads again
ServerFlood ==
    /\ srv = "open"
    /\ Len(srvLines) < MaxFloods
    /\ \E n \in FloodSizes :
          /\ s2c' = s2c \o FloodData(n)
          /\ srvLines' = Append(srvLines, FloodData(n))
    /\ UNCHANGED serverVars
    /\ UNCHANGED stdinEof
    /\ UNCHANGED <<variant, spc, rpc, message, nInputs, writes, quitSteps,
                   closes, sockOps, fdOpen, srv, inflight, nread, buffer,
                   lock, writing, rendered, notices, exitStatus>>

Next ==
    \/ SenderInternal \/ S_Getline \/ S_GetlineEof
    \/ ReceiverNext
    \/ ServerSend \/ Arrive \/ ServerReact \/ ServerDrop

Spec == Init /\ [][Next]_vars

\* the threads are scheduled fairly, the wire delivers, and the server
\* closes its side when it reads /quit or sees the connection closed
FairSpec ==
    /\ Spec
    /\ WF_vars(SenderInternal)
    /\ WF_vars(ReceiverNext)
    /\ WF_vars(Arrive)
    /\ WF_vars(ServerReact)

\* the client against a peer that sends bursts without record separator,
\* while the operator types nothing: main starts up and stays in getline
FloodNext ==
    \/ S_Socket \/ S_Connect \/ S_Login \/ S_Spawn
    \/ S_BeginWrite \/ S_EndWrite
    \/ ReceiverNext
    \/ ServerFlood \/ ServerDrop

FloodSpec == Init /\ [][FloodNext]_vars

\* ================================================================ claims
IsPrefix(a, b) == Len(a) <= Len(b) /\ a = SubSeq(b, 1, Len(a))
Exited == spc = "exited"

\* C1: once the operator has entered /quit, main writes the quit line,
\* leaves its loop, closes the socket, joins the Receiver and exits, in
\* this order and skipping none, in every variant.
QuitSequence == <<"write", "leave", "close", "join", "exit">>
C1_QuitSequence ==
    QuitTyped =>
        /\ IsPrefix(quitSteps, QuitSequence)
        /\ Exited => quitSteps = QuitSequence

\* C2: once the operator has typed /quit, the process eventually exits
\* with status 0.
C2_QuitLeadsToExit == QuitTyped ~> (Exited /\ exitStatus = 0)

\* C3: while both contexts exist, a context that is writing to the
\* terminal holds the rendering lock, and the two never write at once.
BothContextsExist == rpc \notin {"unborn", "done"} /\ ~Exited
C3_WritesUnderLock ==
    BothContextsExist =>
        /\ \A c \in writing : lock = c
        /\ Cardinality(writing) <= 1

\* C4: no context holds the rendering lock while it is blocked in a
\* socket read, a socket write or a read of operator input.
Blocked(c) ==
    IF c = "receiver" THEN rpc = "in_recv"
    ELSE spc \in {"login", "getline", "send", "send_quit"}
C4_LockNotHeldWhileBlocked ==
    \A c \in {"sender", "receiver"} : lock = c => ~Blocked(c)
C4_Witness ==
    /\ lock = "receiver" /\ rpc = "writing" /\ rendered # <<>>
    /\ Blocked("sender")

\* C5: every socket write is issued by the Sender and every socket read
\* by the Receiver.
C5_OneDirectionPerContext ==
    \A op \in sockOps :
        /\ op[2] = "write" => op[1] = "sender"
        /\ op[2] = "read" => op[1] = "receiver"
C5_Witness ==
    /\ <<"receiver", "read">> \in sockOps
    /\ \E i \in 1..Len(writes) : writes[i].data = QuitCmd
    /\ \E i \in 1..Len(writes) : writes[i].data \notin {QuitCmd, <<>>}

\* C6: a read that reports end-of-stream or an error makes the Receiver
\* print the disconnect notice and end its loop, and the process never
\* exits after the dual loop without the notice printed.
NoticePrinted == DisconnectNotice(variant, nread) \in notices
C6_DisconnectNoticed ==
    /\ [](rpc = "done" => NoticePrinted)
    /\ [](Exited /\ srv # "none" => rpc = "done" /\ NoticePrinted)
    /\ [][rpc = "writing" /\ RecvOutcome(variant, nread) # "msg"
            /\ rpc' # rpc => rpc' = "done" /\ NoticePrinted']_vars
    /\ [][rpc = "done" => rpc' = "done"]_vars
C6_Witness ==
    /\ Exited /\ exitStatus = 0 /\ srv = "reset" /\ ~QuitTyped
    /\ rpc = "done" /\ NoticePrinted

RECURSIVE SplitLines(_, _)
SplitLines(bytes, cur) ==
    IF bytes = <<>> THEN <<>>
    ELSE IF Head(bytes) = Newline
         THEN <<cur>> \o SplitLines(Tail(bytes), <<>>)
         ELSE SplitLines(Tail(bytes), Append(cur, Head(bytes)))
RECURSIVE SentLines(_)
SentLines(ws) ==
    IF ws = <<>> THEN <<>>
    ELSE (IF ws[1].ok THEN <<ws[1].data>> ELSE <<>>) \o SentLines(Tail(ws))
C8_WireSplitsIntoLines == SplitLines(Wire(writes), <<>>) = SentLines(writes)

\* C9: the Receiver renders exactly one item per line the server sent,
\* complete and categorised on its own prefix, however the stream is
\* chunked.
StripTerminator(t) ==
    IF t # <<>> /\ t[Len(t)] = Newline THEN SubSeq(t, 1, Len(t) - 1) ELSE t
C9_OneItemPerLine ==
    /\ Len(rendered) <= Len(srvLines)
    /\ \A i \in 1..Len(rendered) :
          i <= Len(srvLines) =>
             /\ StripTerminator(rendered[i].text) = srvLines[i]
             /\ rendered[i].cat = Category(variant, srvLines[i])

\* C10: the first data the client writes is LOGIN <username>, written
\* exactly once and before any chat or quit line, in every variant.
IsLogin(d) == \E u \in Usernames : d = LoginCmd(u)
C10_LoginFirst ==
    /\ writes # <<>> => IsLogin(writes[1].data)
    /\ \A i \in 2..Len(writes) : ~IsLogin(writes[i].data)
    /\ spc \in {"getline", "send", "send_quit"} => writes # <<>>

\* C11: every operator line other than /quit, the empty line included, is
\* written and followed by the next read; while the connection is healthy
\* the Sender leaves its loop only on the quit command.
LeftLoop ==
    spc \in {"fail", "fail_w", "close", "join", "return"}
    \/ (Exited /\ exitStatus = 0)
C11_LeavesOnlyOnQuit ==
    LeftLoop /\ srv = "open" /\ ~stdinEof => QuitTyped

\* C12: the reader reports a zero-byte read as end-of-stream and a
\* transport error as a distinct read error, never as the same outcome.
Reported == rpc \in {"lock", "write", "writing", "done"} /\ nread <= 0
C12_DistinctOutcomes ==
    Reported =>
        /\ nread = 0 <=> RecvOutcome(variant, nread) = "eof"
        /\ nread < 0 <=> RecvOutcome(variant, nread) = "err"

\* C18: no socket call is issued on the handle once it has been closed.
C18_NoCallAfterClose ==
    /\ [][rpc = "loop" /\ rpc' # "loop" => fdOpen]_vars
    /\ [](spc \in {"login", "send", "send_quit"} => fdOpen)

\* C19: once operator input has ended without /quit, the Sender does not
\* go back to reading input: it leaves its loop, closes, joins and exits.
C19_EofEndsLoop ==
    /\ [][stdinEof /\ spc # "getline" => spc' # "getline"]_vars
    /\ [](Exited /\ exitStatus = 0 => closes = <<"sender">> /\ rpc = "done")

\* C20: at every exit the Receiver was never started or has finished; a
\* failed socket() or connect() exits non-zero before the login line and
\* before the Receiver is started, with no socket left open.
C20_ExitPaths ==
    Exited =>
        /\ rpc \in {"unborn", "done"}
        /\ exitStatus = 1 => writes = <<>> /\ rpc = "unborn" /\ ~fdOpen
        /\ rpc = "done" => exitStatus = 0

\* =========================================================== the server
\* The server's source is not part of src/; this part follows spec.md,
\* sections 3, 4.2-4.4, 6 and 7.  A handler step takes one line from its
\* connection and handles it.
ServerUsernames == {"alice", "bob"}
QuitLine == <<"/quit">>
LoginLine(u) == <<"LOGIN", u>>
ChatLine(k) == <<"m" \o ToString(k)>>

\* a line matching LOGIN <username>: a non-empty token, no whitespace
IsLoginLine(line) == Len(line) = 2 /\ line[1] = "LOGIN"
IsQuitLine(line) == line = QuitLine

\* Outbound Message (senderUsername, text, kind); from is the connection
\* identity of the sender
Msg(kind, s, user, text) ==
    [kind |-> kind, from |-> s, user |-> user, text |-> text]
Rejection(s, why) == Msg("reject", s, "SERVER", why)

\* lines the clients have written so far, all connections together
RECURSIVE TotalLines(_, _)
TotalLines(ss, S) ==
    IF S = {} THEN 0
    ELSE LET s == CHOOSE x \in S : TRUE
         IN  ss[s].n + TotalLines(ss, S \ {s})

\* the client behind a connection can still write a line to it
CanWrite(ss, s) ==
    /\ ss[s].st \in {"unauth", "active"}
    /\ ss[s].up
    /\ TotalLines(ss, Sessions) < MaxClientLines

\* an authenticate that lets a second session take over a bound name
NeverTaken(ss, u) == FALSE

\* authenticate: a username is taken while a live session is bound to it
Taken(ss, u) ==
    \E t \in Sessions : ss[t].st \in {"active", "closing"} /\ ss[t].name = u

\* a broadcast that echoes the message to its sender as well
RecipientWithSender(ss, exclude, r) == ss[r].st = "active"

\* broadcast: the recipients of a message, all but excludeSessionId
Recipient(ss, exclude, r) == r # exclude /\ ss[r].st = "active"

\* a write queue that puts the newest line first
DeliverFirst(ob, msg) == <<msg>> \o ob

\* one line written to a client's socket
Deliver(ob, msg) == Append(ob, msg)

\* broadcast(excludeSessionId, message): the lines written
Broadcast(ob, ss, exclude, msg) ==
    [r \in Sessions |->
        IF Recipient(ss, exclude, r) /\ ss[r].up
        THEN Deliver(ob[r], msg) ELSE ob[r]]

\* broadcast: a recipient whose write fails is scheduled for removal
ScheduleFailed(ss, exclude) ==
    [r \in Sessions |->
        IF Recipient(ss, exclude, r) /\ ~ss[r].up
        THEN [ss[r] EXCEPT !.st = "closing"] ELSE ss[r]]

\* register(handle): the Accept Loop takes a connection
Accept(s) ==
    /\ sess[s].st = "free"
    /\ \A t \in Sessions : t < s => sess[t].st # "free"
    /\ sess' = [sess EXCEPT ![s] = [NoSession EXCEPT !.st = "unauth",
                                                     !.up = TRUE]]
    /\ UNCHANGED <<outbox, chats, leaves, before>>
    /\ UNCHANGED clientVars

\* the handler reads LOGIN <username>
HandleLogin(s, u) ==
    /\ CanWrite(sess, s)
    /\ IsLoginLine(LoginLine(u))
    /\ LET counted == [sess EXCEPT ![s].n = @ + 1]
           joined == [counted EXCEPT ![s].st = "active", ![s].name = u]
       IN  IF sess[s].st = "active"
           THEN /\ sess' = counted
                /\ outbox' = [outbox EXCEPT ![s] =
                                 Deliver(@, Rejection(s, <<"logged in">>))]
                /\ UNCHANGED before
           ELSE IF Taken(sess, u)
           THEN /\ sess' = [counted EXCEPT ![s].st = "closing"]
                /\ outbox' = [outbox EXCEPT ![s] =
                                 Deliver(@, Rejection(s, <<"taken", u>>))]
                /\ UNCHANGED before
           ELSE /\ sess' = ScheduleFailed(joined, s)
                /\ outbox' = Broadcast(outbox, joined, s,
                                       Msg("join", s, "SERVER", <<u>>))
                /\ before' = [before EXCEPT ![s] =
                                {t \in Sessions \ {s} :
                                    sess[t].st \in {"free", "unauth"}}]
    /\ UNCHANGED <<chats, leaves>>
    /\ UNCHANGED clientVars

\* a handler that forgets the authentication gate
AnyoneMayChat(session) == TRUE

\* who may have a line broadcast as chat
MayChat(session) == session.st = "active"

\* the handler reads a line of chat text
HandleChat(s) ==
    /\ CanWrite(sess, s)
    /\ LET line == ChatLine(sess[s].k + 1)
           counted == [sess EXCEPT ![s].n = @ + 1, ![s].k = @ + 1]
       IN  /\ ~IsLoginLine(line) /\ ~IsQuitLine(line)
           /\ IF MayChat(sess[s])
              THEN /\ sess' = ScheduleFailed(counted, s)
                   /\ outbox' = Broadcast(outbox, counted, s,
                                          Msg("chat", s, sess[s].name, line))
                   /\ chats' = [chats EXCEPT ![s] = Append(@, line)]
              ELSE /\ sess' = counted
                   /\ outbox' = [outbox EXCEPT ![s] =
                                    Deliver(@, Rejection(s, <<"login first">>))]
                   /\ UNCHANGED chats
    /\ UNCHANGED <<leaves, before>>
    /\ UNCHANGED clientVars

\* the handler reads the quit command: Closing, nothing broadcast as chat
HandleQuit(s) ==
    /\ CanWrite(sess, s)
    /\ IsQuitLine(QuitLine)
    /\ sess' = [sess EXCEPT ![s].n = @ + 1, ![s].st = "closing"]
    /\ UNCHANGED <<outbox, chats, leaves, before>>
    /\ UNCHANGED clientVars

\* the client's end goes away with no /quit
Disconnect(s) ==
    /\ sess[s].st \in {"unauth", "active"}
    /\ sess[s].up
    /\ sess' = [sess EXCEPT ![s].up = FALSE]
    /\ UNCHANGED <<outbox, chats, leaves, before>>
    /\ UNCHANGED clientVars

\* the handler's read reports end-of-stream or an error: Closing
DetectEos(s) ==
    /\ sess[s].st \in {"unauth", "active"}
    /\ ~sess[s].up
    /\ sess' = [sess EXCEPT ![s].st = "closing"]
    /\ UNCHANGED <<outbox, chats, leaves, before>>
    /\ UNCHANGED clientVars

\* a Closing that announces every removed session
LeaveAlways(session) == 1

\* Closing emits a leave notice only if the session had reached Active
LeaveNotices(session) == IF session.name # "none" THEN 1 ELSE 0

\* Closing: leave notice, remove(sessionId), release the handle
Close(s) ==
    /\ sess[s].st = "closing"
    /\ LET removed == [sess EXCEPT ![s].st = "gone"]
       IN  /\ sess' = ScheduleFailed(removed, s)
           /\ outbox' = IF LeaveNotices(sess[s]) > 0
                        THEN Broadcast(outbox, removed, s,
                                 Msg("leave", s, "SERVER", <<sess[s].name>>))
                        ELSE outbox
    /\ leaves' = [leaves EXCEPT ![s] = @ + LeaveNotices(sess[s])]
    /\ UNCHANGED <<chats, before>>
    /\ UNCHANGED clientVars

ServerInit ==
    /\ Init
    /\ variant = "linux"

ServerNext ==
    \E s \in Sessions :
        \/ Accept(s)
        \/ \E u \in ServerUsernames : HandleLogin(s, u)
        \/ HandleChat(s)
        \/ HandleQuit(s)
        \/ Disconnect(s)
        \/ DetectEos(s)
        \/ Close(s)

ServerSpec == ServerInit /\ [][ServerNext]_vars

\* ========================================================= server claims
Active(r) == sess[r].st = "active"
Reachable(r) == Active(r) /\ sess[r].up
Select(ob, kind, s) ==
    LET Wanted(m) == m.kind = kind /\ m.from = s
        sel == SelectSeq(ob, Wanted)
    IN  [i \in 1..Len(sel) |-> sel[i].text]
Count(ob, kind, s) ==
    Cardinality({i \in 1..Len(ob) : ob[i].kind = kind /\ ob[i].from = s})
Has(ob, kind) == \E i \in 1..Len(ob) : ob[i].kind = kind

\* C13: a broadcast reaches every registered authenticated session but
\* the sender's: the sender never gets its own message and a session that
\* never authenticated never gets a broadcast.
C13_BroadcastRecipients ==
    /\ [](\A r \in Sessions : \A i \in 1..Len(outbox[r]) :
             outbox[r][i].kind # "reject" => outbox[r][i].from # r)
    /\ [](\A r \in Sessions : sess[r].name = "none" =>
             \A i \in 1..Len(outbox[r]) : outbox[r][i].kind = "reject")
    /\ [][\A s \in Sessions : chats'[s] # chats[s] =>
             \A r \in Sessions :
                outbox'[r] =
                   IF r # s /\ Reachable(r)
                   THEN Append(outbox[r],
                               Msg("chat", s, sess[s].name,
                                   chats'[s][Len(chats'[s])]))
                   ELSE outbox[r]]_vars
C13_Witness ==
    \E s, r, u \in Sessions :
        /\ s # r /\ r # u /\ s # u
        /\ Select(outbox[r], "chat", s) # <<>>
        /\ Active(s) /\ Active(r)
        /\ sess[u].st = "unauth" /\ outbox[s] = <<>> /\ outbox[u] = <<>>

\* C14: of two logins with the same username one succeeds and the other
\* is rejected and stays unauthenticated; no two registered sessions are
\* bound to the same username.
Bound(s) == sess[s].st \in {"active", "closing"} /\ sess[s].name # "none"
RejectedAsTaken(s, u) ==
    \E i \in 1..Len(outbox[s]) :
        outbox[s][i].kind = "reject" /\ outbox[s][i].text = <<"taken", u>>
C14_UniqueUsernames ==
    /\ \A s, t \in Sessions :
          s # t /\ Bound(s) /\ Bound(t) => sess[s].name # sess[t].name
    /\ \A s \in Sessions : \A u \in ServerUsernames :
          RejectedAsTaken(s, u) =>
             /\ sess[s].name = "none"
             /\ sess[s].st \in {"closing", "gone"}
             /\ \E t \in Sessions \ {s} : sess[t].name = u
C14_Witness ==
    \E s, t \in Sessions : \E u \in ServerUsernames :
        /\ s # t /\ Active(t) /\ sess[t].name = u
        /\ RejectedAsTaken(s, u)

\* C15: chat text sent before a successful LOGIN is answered with a
\* rejection and broadcast to nobody; the session stays Unauthenticated
\* and its connection stays open.
C15_ChatBeforeLogin ==
    [][\A s \in Sessions :
          sess[s].st = "unauth" /\ sess'[s].k = sess[s].k + 1 =>
             /\ sess'[s].st = "unauth" /\ sess'[s].up
             /\ outbox'[s] = Append(outbox[s],
                                    Rejection(s, <<"login first">>))
             /\ \A r \in Sessions \ {s} : outbox'[r] = outbox[r]
             /\ chats' = chats]_vars
C15_Witness ==
    \E s, t \in Sessions :
        /\ s # t /\ Reachable(t) /\ outbox[t] = <<>>
        /\ sess[s].st = "unauth" /\ sess[s].k = 1
        /\ Has(outbox[s], "reject")

\* C16: after an abrupt disconnect the remaining clients still deliver to
\* each other, and the leave notice of a removed session is broadcast
\* exactly once if it had reached Active and never otherwise.
C16_LeaveOnce ==
    /\ [](\A s \in Sessions :
             leaves[s] = IF sess[s].st = "gone" /\ sess[s].name # "none"
                         THEN 1 ELSE 0)
    /\ [](\A s, r \in Sessions : Count(outbox[r], "leave", s) <= 1)
    /\ [][\A s \in Sessions :
             sess[s].st # "gone" /\ sess'[s].st = "gone" =>
                \A r \in Sessions :
                   Count(outbox'[r], "leave", s) =
                      IF r # s /\ Reachable(r) /\ sess[s].name # "none"
                      THEN 1 ELSE 0]_vars
    /\ [][\A s, r \in Sessions :
             /\ \E t \in Sessions : ~sess[t].up /\ sess[t].st # "free"
             /\ chats'[s] # chats[s] /\ r # s /\ Reachable(r)
             => Len(outbox'[r]) = Len(outbox[r]) + 1]_vars
C16_Witness ==
    \E s, r, t \in Sessions :
        /\ s # r /\ r # t /\ s # t
        /\ sess[s].st = "gone" /\ ~sess[s].up /\ leaves[s] = 1
        /\ \E i, j \in 1..Len(outbox[r]) :
              /\ i < j
              /\ outbox[r][i].kind = "leave" /\ outbox[r][i].from = s
              /\ outbox[r][j].kind = "chat" /\ outbox[r][j].from = t

\* C17: a client authenticated throughout receives exactly the chat lines
\* another client sent after its LOGIN, attributed to that client and in
\* the order sent; /quit is never delivered as chat.
IsSegment(a, b) ==
    \E i \in 0..Len(b) :
        i + Len(a) <= Len(b) /\ a = SubSeq(b, i + 1, i + Len(a))
C17_OrderedDelivery ==
    /\ \A r \in Sessions : \A i \in 1..Len(outbox[r]) :
          outbox[r][i].kind = "chat" =>
             /\ outbox[r][i].text # QuitLine
             /\ outbox[r][i].user = sess[outbox[r][i].from].name
    /\ \A s, r \in Sessions :
          s # r =>
             /\ IsSegment(Select(outbox[r], "chat", s), chats[s])
             /\ Active(r) /\ s \in before[r] =>
                   Select(outbox[r], "chat", s) = chats[s]
    /\ \A s \in Sessions :
          ~Has(outbox[s], "reject") =>
             /\ Len(chats[s]) = sess[s].k
             /\ \A i \in 1..Len(chats[s]) : chats[s][i] = ChatLine(i)
C17_Witness ==
    \E s, r \in Sessions :
        /\ s # r /\ Active(r) /\ s \in before[r]
        /\ sess[s].k = 2 /\ ~Has(outbox[s], "reject")
        /\ Select(outbox[r], "chat", s) = <<ChatLine(1), ChatLine(2)>>

\* C21: every positive result n of the Receiver's recv() is at most
\* BufCap - 1, the buffer holds exactly the n bytes read, and the
\* terminator written at index n lies inside the buffer, however much
\* unterminated data the peer has sent.
C21_NoOverflow ==
    /\ nread <= BufCap - 1
    /\ nread > 0 => Len(buffer) = nread /\ nread + 1 <= BufCap
C21_Witness ==
    /\ rpc = AfterRecv(variant)
    /\ nread = BufCap - 1 /\ Len(buffer) = BufCap - 1
    /\ s2c # <<>>
====
